---- MODULE Spec2Model ----
(***************************************************************************)
(* Model of the deployment orchestrator of jmcarp/deploy-to-cf:            *)
(* CloudFoundry.Create and the functions it calls (createServices,         *)
(* createService, checkService, createApp, getRoute).                      *)
(*                                                                         *)
(* The repository holds three revisions of this code:                      *)
(*   "helpers"  src/helpers/cloud_foundry.go  (timeout is a parameter,     *)
(*              push runs in-process)                                      *)
(*   "part_000" src/unnamed/part_000          (timeout is a parameter,     *)
(*              push is a cf subprocess)                                   *)
(*   "main"     src/main.go                   (checkService is called with *)
(*              the literal 30)                                            *)
(* The variable rev says which revision a run executes.                    *)
(*                                                                         *)
(* Text is modelled as a sequence of tokens.  A token is either a literal  *)
(* that the code compares against (StatusLine, UrlsMarker), the line       *)
(* separator "\n", or a piece of other text (" ", "\r", another status,   *)
(* "x").  Splitting and comparing are done on these sequences as the code  *)
(* does them on characters.                                                *)
(***************************************************************************)
EXTENDS Integers, Sequences, FiniteSets, TLC

\* ---------------------------------------------------------------- bounds
MaxServices == 2
MaxOutLen == 2
MaxAppOutLen == 2
MaxNegTimeout == 1
MaxTimeout == 5

\* ------------------------------------------------------ program constants
PollInterval == 5
HardCodedTimeout == 30

StatusLine == "Status: create succeeded"
UrlsMarker == "urls: "
NewLine == "\n"
AppName == "testapp"

Revisions == {"helpers", "part_000", "main"}
Labels == {"svcA", "svcB"}
Timeouts == (0 - MaxNegTimeout)..MaxTimeout

\* what the yaml "config" mapping of a service can be: absent, a mapping
\* json.Marshal accepts, or one it rejects (yaml.v2 decodes nested mappings
\* to map[interface{}]interface{}, which encoding/json cannot encode)
ConfigKinds == {"none", "encodable", "unencodable"}

OtherStatus == "Status: create in progress"
StatusTokens == {StatusLine, NewLine, "\r", " ", OtherStatus}
AppTokens == {UrlsMarker, NewLine, "x"}

SeqsUpTo(S, n) == UNION {[1..k -> S] : k \in 0..n}

StatusOutputs == SeqsUpTo(StatusTokens, MaxOutLen)
AppOutputs == SeqsUpTo(AppTokens, MaxAppOutLen)
ServiceLists == SeqsUpTo(Labels, MaxServices)

\* ------------------------------------------------------------ error values
\* an error is its message, a token sequence; nil is the empty message
NoErr == <<>>
ExitErr == <<"exit status 1">>
MarshalErr == <<"json: unsupported type: map[interface {}]interface {}">>
IncompleteErr(label) == <<"Service ", label, " incomplete">>
NoURLErr(name) == <<"No URL found for app ", name>>
\* what the in-process push of the "helpers" revision returns when a
\* requirement or the command fails
InProcessPushErr == <<"push: requirement or command failed">>

Mentions(msg, word) == \E k \in 1..Len(msg) : msg[k] = word

\* ------------------------------------------------------- string functions
\* strings.Index(s, sep) for a one-token sep, 1-based; 0 when absent
Index(s, sep) ==
    IF \E k \in 1..Len(s) : s[k] = sep
    THEN CHOOSE k \in 1..Len(s) : s[k] = sep /\ \A j \in 1..(k-1) : s[j] # sep
    ELSE 0

\* strings.Split(s, sep): cut at every occurrence of sep, left to right
RECURSIVE Split(_, _)
Split(s, sep) ==
    IF Index(s, sep) = 0
    THEN <<s>>
    ELSE <<SubSeq(s, 1, Index(s, sep) - 1)>>
         \o Split(SubSeq(s, Index(s, sep) + 1, Len(s)), sep)

\* ------------------------------------------------------------ checkService
\* line == "Status: create succeeded"
LineMatchesPrefix(line) == Len(line) > 0 /\ line[1] = StatusLine
LineMatches(line) == line = <<StatusLine>>

\* the body of `if err == nil { ... return nil }` of the poll loop
QueryMatchesIgnoringErr(err, out) ==
    \E k \in 1..Len(Split(out, NewLine)) : LineMatches(Split(out, NewLine)[k])
QueryMatches(err, out) ==
    /\ err = NoErr
    /\ \E k \in 1..Len(Split(out, NewLine)) : LineMatches(Split(out, NewLine)[k])

\* elapsed += 5
NextElapsedStuck(e) == e
NextElapsed(e) == e + PollInterval

\* if elapsed > timeout
TimeoutExceededAtLeast(e, lim) == e >= lim
TimeoutExceeded(e, lim) == e > lim

\* the limit createService hands to checkService
PollLimit(r, t) == IF r = "main" THEN HardCodedTimeout ELSE t

\* ---------------------------------------------------------- createServices
\* `if err != nil { return err }` in the loop over app.Services
ServicesLoopStopsNever(err) == FALSE
ServicesLoopStops(err) == err # NoErr

\* `if err != nil { return err }` of createService after the create command
CreateFailedNever(err) == FALSE
CreateFailed(err) == err # NoErr

\* ------------------------------------------------------------------ Create
\* `if err != nil { return "", err }` after createServices
ServicesFailedNever(err) == FALSE
ServicesFailed(err) == err # NoErr

\* the error a failing createApp returns: the cf library's error in the
\* revision that pushes in-process, the subprocess's exit error in the others
PushError(r) == IF r = "helpers" THEN InProcessPushErr ELSE ExitErr

\* `if err != nil { return "", err }` after createApp
PushFailedNever(err) == FALSE
PushFailed(err) == err # NoErr

\* ---------------------------------------------------------------- getRoute
\* strings.Index(line, "urls: ") == 0
HasUrlsAnywhere(line) == Index(line, UrlsMarker) >= 1
HasUrlsPrefix(line) == Index(line, UrlsMarker) = 1

\* strings.Replace(line, "urls: ", "", 1)
ReplaceFirst(line, old) ==
    IF Index(line, old) = 0
    THEN line
    ELSE SubSeq(line, 1, Index(line, old) - 1)
         \o SubSeq(line, Index(line, old) + 1, Len(line))

RouteLines(out) ==
    {k \in 1..Len(Split(out, NewLine)) : HasUrlsPrefix(Split(out, NewLine)[k])}

FirstRouteLine(out) ==
    Split(out, NewLine)[CHOOSE k \in RouteLines(out) :
                            \A j \in RouteLines(out) : k <= j]

\* the (route, error) pair getRoute returns for a query outcome
GetRouteResult(err, out) ==
    IF err # NoErr THEN [route |-> <<>>, err |-> err]
    ELSE IF RouteLines(out) = {} THEN [route |-> <<>>, err |-> NoURLErr(AppName)]
    ELSE [route |-> ReplaceFirst(FirstRouteLine(out), UrlsMarker), err |-> NoErr]

\* ------------------------------------------------------------------ Deploy
\* len(target) != 4
TargetParts == 4
StatusOK == 200
StatusBadRequest == 400
StatusInternalServerError == 500

\* the environment contract of the descriptor: A is required, B is optional
EnvNames == {"A", "B"}
Required(n) == n = "A"
DescriptorValues == {"", "d"}
FormValues == {"", "x"}
Descriptors ==
    {[n \in EnvNames |-> [required |-> Required(n), value |-> v]] :
        v \in DescriptorValues}
Forms ==
    [sourceOK : BOOLEAN, targetParts : {TargetParts - 1, TargetParts},
     values : [EnvNames -> FormValues]]

\* the env section of the manifest.yml inside the archive; "C" is a key the
\* descriptor does not know
ManifestKeys == EnvNames \cup {"C"}
ArchiveManifestEnv == [k \in ManifestKeys |-> "m"]

\* `envvar.Value = r.Form.Get(name)` in `for name, envvar := range
\* app.EnvVars`: the map holds *EnvVar in the helpers package, so the entry
\* is updated; it holds EnvVar values in src/main.go, so only the loop's copy
\* is
StoredValue(r, old, submitted) == IF r = "main" THEN old ELSE submitted

\* `if envvar.Required && envvar.Value == ""`, on the loop variable
IsMissing(required, submitted) == required /\ submitted = ""

\* w.WriteHeader(code): the first call fixes the status
WriteHeader(old, code) == IF old = 0 THEN code ELSE old

\* the status the client sees when the handler returns
FinalStatus(st) == IF st = 0 THEN StatusOK ELSE st

\* `if len(errors) > 0 { w.WriteHeader(400) }`: no return follows
ValidationStops(errs) == FALSE

\* `defer os.RemoveAll(dir)`
CleanupSkipped(d) == d
DeferredCleanup(d) == IF d = "exists" THEN "removed" ELSE d

\* the order of the statements of Deploy after validation
PipelineSwapped ==
    <<"tempDir", "download", "writeConfig", "mutate", "createServices">>
Pipeline == <<"tempDir", "download", "mutate", "writeConfig", "createServices">>

\* the stage that follows stage st
After(st) ==
    Pipeline[1 + CHOOSE k \in 1..(Len(Pipeline) - 1) : Pipeline[k] = st]

\* ------------------------------------------------- observation of outputs
\* The status text stands on a line of its own: it is at position a of the
\* output, preceded by the start of the output or a line separator and
\* followed by the end of the output or a line separator.
HasExactLine(out) ==
    \E a \in 1..Len(out) :
        /\ out[a] = StatusLine
        /\ (a = 1 \/ out[a-1] = NewLine)
        /\ (a = Len(out) \/ out[a+1] = NewLine)

\* ------------------------------------------------------------------- state
VARIABLES
    rev,        \* revision of the code this run executes
    services,   \* app.Services, as the sequence of instance labels
    timeout,    \* the configured ServiceTimeout
    pc,         \* position of the run inside Create
    idx,        \* index into app.Services of the createServices loop
    \* the frame of the current (or, until the next call is made, the last)
    \* checkService call:
    limit,      \* its timeout parameter
    elapsed,    \* its local elapsed
    queries,    \* status queries it issued
    failed,     \* of those, the ones whose command returned an error
    sleeps,     \* time.Sleep calls it made
    nearMiss,   \* some query of it exited cleanly and its output held the
                \* status text, but on no line of its own
    exactSeen,  \* per service: some query exited cleanly with an exact line
    createOutcome, \* per service: how its `cf create-service` command ended
                \* ("none" while it has not been run)
    svcState,   \* per service: Pending, Requested, Ready, TimedOut, RequestFailed
    cmdLog,     \* every cf command issued so far, in order
    pushErr,    \* the error createApp returned (NoErr before it ran)
    appErr,     \* the error of getRoute's `cf app` command (NoErr before it ran)
    appOut,     \* getRoute's buf: captured output of `cf app`
    result      \* what Create returned: [route, err]; meaningful at pc = "done"

\* the state of the Deploy handler around Create
VARIABLES
    form,       \* the submitted form: are owner/repo/ref present, the number of
                \* ":"-separated parts of target, and the value of each field
                \* named like an environment variable
    envVars,    \* app.EnvVars: name -> [required, value]
    missing,    \* Deploy's errors: names of required variables left empty
    status,     \* the HTTP status Deploy wrote with WriteHeader; 0 while none
    dir,        \* the temporary directory: "none", "exists", "removed"
    stages,     \* the pipeline stages Deploy has run, in order
    failures,   \* the stages that returned an error (or panicked)
    mutatorCalls, \* the (name, value) pairs passed to AddEnvironmentVariable
    manifestEnv,  \* env section of the manifest object in memory
    savedEnv,     \* env section of the extracted manifest.yml on disk
    sessionFile   \* is <dir>/env/.cf/config.json written

deployVars == <<form, envVars, missing, status, dir, stages, failures,
                mutatorCalls, manifestEnv, savedEnv, sessionFile>>

\* the state of two Deploy handlers running in one server process
VARIABLES
    cpc,        \* position of each run in its handler
    cdir,       \* each run's temporary directory, as returned by TempDir
    tmpDirs,    \* the temporary directories that exist
    fs,         \* content of each session file: "absent" or the run whose
                \* token and target it holds
    cfHome,     \* CF_HOME in the environment of the server process
    cliOps      \* per run, the CLI operations it ran and the CF_HOME each
                \* of them ran with

concVars == <<cpc, cdir, tmpDirs, fs, cfHome, cliOps>>

\* the state of one call of Untar
VARIABLES
    upc,        \* position in Untar: "idle", "open", "loop", "returned"
    disk,       \* the file system: path -> directory or file node
    un,         \* the number of entry headers read so far
    uentry,     \* the entry read last
    ufault,     \* what went wrong with it: "none", "early", "late"
    ueof,       \* has tarReader.Next() returned io.EOF
    uresult     \* what Untar returned: "none" so far, "nil", "err"

untarVars == <<upc, disk, un, uentry, ufault, ueof, uresult>>

\* the state of the browser session and of the last request served
VARIABLES
    cookie,     \* the session cookie the browser holds: the session's values
    captured,   \* a callback request that was answered with a token, as
                \* it was sent (query and cookie), kept for replay
    resp        \* the last request and how it was answered

authVars == <<cookie, captured, resp>>

sideVars == <<concVars, untarVars, authVars>>

\* the state outside one run of Create
outerVars == <<deployVars, sideVars>>

createVars == <<rev, services, timeout, pc, idx, limit, elapsed, queries,
                failed, sleeps, nearMiss, exactSeen, createOutcome, svcState,
                cmdLog, pushErr, appErr, appOut, result>>

vars == <<createVars, outerVars>>

Runs == {"A", "B"}
DirNames == {"t1", "t2", "t3"}
Unset == <<>>

\* filepath.Join
Join(path, elems) == path \o elems

\* the session files of the temporary directories, and one outside of them
SessionFiles == {<<d, "env", ".cf", "config.json">> : d \in DirNames}
                    \cup {<<".cf", "config.json">>}

\* no second handler is running
NoConc ==
    /\ cpc = [r \in Runs |-> "idle"]
    /\ cdir = [r \in Runs |-> Unset]
    /\ tmpDirs = {}
    /\ fs = [p \in SessionFiles |-> "absent"]
    /\ cfHome = Unset
    /\ cliOps = [r \in Runs |-> {}]

\* ---- Untar's world
\* dest, the directory Untar extracts into, inside the run's directory
Dest == <<"t", "app">>

DirNode(mode) == [kind |-> "dir", mode |-> mode, content |-> <<>>]
FileNode(mode, content) == [kind |-> "file", mode |-> mode, content |-> content]

\* before Untar: the run's directory, dest in it, and next to dest a file
\* of the run that is no part of the extraction
InitialDisk ==
    (<<"t">> :> DirNode("0755")) @@ (Dest :> DirNode("0755"))
        @@ (<<"t", "cfg">> :> FileNode("0644", <<"k">>))

NoEntry == [name |-> <<>>, kind |-> "none", mode |-> "", content |-> <<>>]

\* no Untar is running
NoUntar ==
    /\ upc = "idle"
    /\ disk = InitialDisk
    /\ un = 0
    /\ uentry = NoEntry
    /\ ufault = "none"
    /\ ueof = FALSE
    /\ uresult = "none"

\* ---- sessions
None == "none"
NoSession == [token |-> None, state |-> None, redirect |-> None]
NoRequest == [path |-> None, url |-> None, state |-> "", cookie |-> NoSession]
NoResponse == [req |-> NoRequest, replay |-> FALSE, invoked |-> None,
               status |-> 0, location |-> None, values |-> NoSession,
               saved |-> FALSE]

\* no request has been served
NoAuth ==
    /\ cookie = NoSession
    /\ captured = NoRequest
    /\ resp = NoResponse

\* no Deploy handler is running: Create is run on its own
NoDeploy ==
    /\ form = [sourceOK |-> TRUE, targetParts |-> TargetParts,
               values |-> [n \in EnvNames |-> ""]]
    /\ envVars = [n \in EnvNames |-> [required |-> FALSE, value |-> ""]]
    /\ missing = {}
    /\ status = 0
    /\ dir = "none"
    /\ stages = <<>>
    /\ failures = {}
    /\ mutatorCalls = {}
    /\ manifestEnv = ArchiveManifestEnv
    /\ savedEnv = ArchiveManifestEnv
    /\ sessionFile = FALSE

Cmd(name, label, i) == [cmd |-> name, label |-> label, idx |-> i]

NoResult == [route |-> <<>>, err |-> NoErr]

Init ==
    /\ rev \in Revisions
    /\ services \in ServiceLists
    /\ timeout \in Timeouts
    /\ pc = "createServices"
    /\ idx = 1
    /\ limit = 0
    /\ elapsed = 0
    /\ queries = 0
    /\ failed = 0
    /\ sleeps = 0
    /\ exactSeen = [i \in 1..Len(services) |-> FALSE]
    /\ createOutcome = [i \in 1..Len(services) |-> "none"]
    /\ nearMiss = FALSE
    /\ svcState = [i \in 1..Len(services) |-> "Pending"]
    /\ cmdLog = <<>>
    /\ pushErr = NoErr
    /\ appErr = NoErr
    /\ appOut = <<>>
    /\ result = NoResult
    /\ NoDeploy
    /\ NoConc
    /\ NoUntar
    /\ NoAuth

\* no checkService call is active: its frame is gone
NoFrame ==
    /\ limit' = 0
    /\ elapsed' = 0
    /\ queries' = 0
    /\ failed' = 0
    /\ sleeps' = 0
    /\ nearMiss' = FALSE

\* Create returns ("", err)
ReturnErr(err) ==
    /\ pc' = "done"
    /\ result' = [route |-> <<>>, err |-> err]

\* createService returned err to the loop of createServices, which returns
\* it to Create, which returns it to its caller
ServiceFails(err) ==
    IF ServicesLoopStops(err)
    THEN IF ServicesFailed(err)
         THEN ReturnErr(err) /\ UNCHANGED idx
         ELSE pc' = "createApp" /\ UNCHANGED <<idx, result>>
    ELSE pc' = "createServices" /\ idx' = idx + 1 /\ UNCHANGED result

\* createService, up to its call of checkService.  cfg is the shape of the
\* service's config mapping, cmdErr the outcome of `cf create-service`.
CreateService ==
    /\ pc = "createServices"
    /\ idx <= Len(services)
    /\ \E cfg \in ConfigKinds, cmdErr \in {NoErr, ExitErr} :
        IF cfg = "unencodable"
        THEN \* json.Marshal fails: return err before any command is run
             /\ ServiceFails(MarshalErr)
             /\ svcState' = [svcState EXCEPT ![idx] = "RequestFailed"]
             /\ NoFrame
             /\ UNCHANGED <<cmdLog, createOutcome>>
        ELSE /\ cmdLog' = Append(cmdLog, Cmd("create-service", services[idx], idx))
             /\ createOutcome' = [createOutcome EXCEPT ![idx] =
                                      IF cmdErr = NoErr THEN "ok" ELSE "failed"]
             /\ IF CreateFailed(cmdErr)
                THEN /\ ServiceFails(cmdErr)
                     /\ svcState' = [svcState EXCEPT ![idx] = "RequestFailed"]
                     /\ NoFrame
                ELSE /\ pc' = "checkService"
                     /\ svcState' = [svcState EXCEPT ![idx] = "Requested"]
                     /\ limit' = PollLimit(rev, timeout)
                     /\ elapsed' = 0
                     /\ queries' = 0
                     /\ failed' = 0
                     /\ sleeps' = 0
                     /\ nearMiss' = FALSE
                     /\ UNCHANGED <<idx, result>>
    /\ UNCHANGED <<rev, services, timeout, exactSeen, pushErr, appErr, appOut>>
    /\ UNCHANGED outerVars

\* one iteration of checkService's loop: run `cf service <label>`, scan its
\* output, and either return nil, return the timeout error, or sleep
CheckService ==
    /\ pc = "checkService"
    /\ \E qErr \in {NoErr, ExitErr}, out \in StatusOutputs :
        /\ cmdLog' = Append(cmdLog, Cmd("service", services[idx], idx))
        /\ queries' = queries + 1
        /\ failed' = IF qErr # NoErr THEN failed + 1 ELSE failed
        /\ exactSeen' = [exactSeen EXCEPT ![idx] =
              @ \/ (qErr = NoErr /\ HasExactLine(out))]
        /\ nearMiss' = (\/ nearMiss
                        \/ (/\ qErr = NoErr
                            /\ Mentions(out, StatusLine)
                            /\ ~HasExactLine(out)))
        /\ IF QueryMatches(qErr, out)
           THEN \* return nil: back in createServices, next service
                /\ svcState' = [svcState EXCEPT ![idx] = "Ready"]
                /\ pc' = "createServices"
                /\ idx' = idx + 1
                /\ UNCHANGED <<elapsed, sleeps, result>>
           ELSE IF TimeoutExceeded(NextElapsed(elapsed), limit)
           THEN /\ elapsed' = NextElapsed(elapsed)
                /\ svcState' = [svcState EXCEPT ![idx] = "TimedOut"]
                /\ ServiceFails(IncompleteErr(services[idx]))
                /\ UNCHANGED sleeps
           ELSE /\ elapsed' = NextElapsed(elapsed)
                /\ sleeps' = sleeps + 1
                /\ UNCHANGED <<pc, idx, svcState, result>>
    /\ UNCHANGED <<rev, services, timeout, limit, createOutcome, pushErr, appErr,
                   appOut>>
    /\ UNCHANGED outerVars

\* createServices returns nil: Create goes on to createApp
ServicesDone ==
    /\ pc = "createServices"
    /\ idx > Len(services)
    /\ pc' = "createApp"
    /\ NoFrame
    /\ UNCHANGED <<rev, services, timeout, idx, exactSeen, createOutcome,
                   svcState, cmdLog, pushErr, appErr, appOut, result>>
    /\ UNCHANGED outerVars

\* createApp("testapp", manifest, path): the push
CreateApp ==
    /\ pc = "createApp"
    /\ \E err \in {NoErr, PushError(rev)} :
        /\ cmdLog' = Append(cmdLog, Cmd("push", AppName, 0))
        /\ pushErr' = err
        /\ IF PushFailed(err)
           THEN ReturnErr(err)
           ELSE pc' = "getRoute" /\ UNCHANGED result
    /\ UNCHANGED <<rev, services, timeout, idx, limit, elapsed, queries, failed,
                   sleeps, nearMiss, exactSeen, createOutcome, svcState, appErr,
                   appOut>>
    /\ UNCHANGED outerVars

\* getRoute("testapp"): `cf app testapp` and the scan for the urls line
GetRoute ==
    /\ pc = "getRoute"
    /\ \E qErr \in {NoErr, ExitErr}, out \in AppOutputs :
        /\ cmdLog' = Append(cmdLog, Cmd("app", AppName, 0))
        /\ appErr' = qErr
        /\ appOut' = out
        /\ result' = GetRouteResult(qErr, out)
        /\ pc' = "done"
    /\ UNCHANGED <<rev, services, timeout, idx, limit, elapsed, queries, failed,
                   sleeps, nearMiss, exactSeen, createOutcome, svcState, pushErr>>
    /\ UNCHANGED outerVars

Next ==
    \/ CreateService
    \/ CheckService
    \/ ServicesDone
    \/ CreateApp
    \/ GetRoute

Spec == Init /\ [][Next]_vars

\* the run is scheduled until Create returns
FairSpec == Spec /\ WF_vars(Next)

\* ------------------------------------------------------- the Deploy handler
MaxDeployServices == 1

\* the ServiceTimeout values a Deploy run is tried with
DeployTimeouts == {0 - MaxNegTimeout, MaxTimeout}

\* DecodeFails: schema decoding of owner/repo/ref fails, or target does not
\* split into 4 parts
DecodeFailsOnSource(f) == ~f.sourceOK
DecodeFails(f) == ~f.sourceOK \/ f.targetParts # TargetParts

\* download: the error it returns, "ok" for none.  getArchiveURL's error is
\* overwritten by http.Get's, but http.Get fails on the empty URL it leaves.
ArchiveURL == <<"https://codeload.github.com/">>
DownloadOutcome(linkOK, getOK, headerOK, untarOK) ==
    LET url == IF linkOK THEN ArchiveURL ELSE <<>>
    IN  IF url = <<>> THEN "archiveLink"
        ELSE IF ~getOK THEN "httpGet"
        ELSE IF ~headerOK THEN "contentDisposition"
        ELSE IF ~untarOK THEN "untar"
        ELSE "ok"

\* Manifest.AddEnvironmentVariable(name, value): set one env entry
AddEnvironmentVariable(env, name, value) ==
    [k \in (DOMAIN env) \cup {name} |-> IF k = name THEN value ELSE env[k]]

\* the loop `for name, envvar := range app.EnvVars` over the mutator
RECURSIVE AddAll(_, _, _)
AddAll(env, names, vals) ==
    IF names = {} THEN env
    ELSE LET n == CHOOSE x \in names : TRUE
         IN  AddAll(AddEnvironmentVariable(env, n, vals[n].value),
                    names \ {n}, vals)

EmptyEnv == [k \in {} |-> ""]

createRest == <<rev, services, timeout, idx, limit, elapsed, queries, failed,
                sleeps, nearMiss, exactSeen, createOutcome, svcState, cmdLog,
                pushErr, appErr, appOut, result>>

DeployInit ==
    /\ rev \in Revisions
    /\ services \in SeqsUpTo(Labels, MaxDeployServices)
    /\ timeout \in DeployTimeouts
    /\ pc = "decode"
    /\ idx = 1
    /\ limit = 0
    /\ elapsed = 0
    /\ queries = 0
    /\ failed = 0
    /\ sleeps = 0
    /\ exactSeen = [i \in 1..Len(services) |-> FALSE]
    /\ createOutcome = [i \in 1..Len(services) |-> "none"]
    /\ nearMiss = FALSE
    /\ svcState = [i \in 1..Len(services) |-> "Pending"]
    /\ cmdLog = <<>>
    /\ pushErr = NoErr
    /\ appErr = NoErr
    /\ appOut = <<>>
    /\ result = NoResult
    /\ form \in Forms
    /\ envVars \in Descriptors
    /\ missing = {}
    /\ status = 0
    /\ dir = "none"
    /\ stages = <<>>
    /\ failures = {}
    /\ mutatorCalls = {}
    /\ manifestEnv = ArchiveManifestEnv
    /\ savedEnv = ArchiveManifestEnv
    /\ sessionFile = FALSE
    /\ NoConc
    /\ NoUntar
    /\ NoAuth

\* the handler returns (or unwinds): the deferred os.RemoveAll(dir) runs
Return ==
    /\ pc' = "returned"
    /\ dir' = DeferredCleanup(dir)

\* r.ParseForm, decoding of the source fields, and the split of target
DecodeRequest ==
    /\ pc = "decode"
    /\ IF DecodeFails(form)
       THEN /\ status' = WriteHeader(status, StatusBadRequest)
            /\ pc' = "returned"
       ELSE /\ pc' = "loadManifest"
            /\ UNCHANGED status
    /\ UNCHANGED <<form, envVars, missing, dir, stages, failures, mutatorCalls,
                   manifestEnv, savedEnv, sessionFile>>
    /\ UNCHANGED <<createRest, sideVars>>

\* h.LoadManifest: fetch and parse the descriptor
LoadManifest ==
    /\ pc = "loadManifest"
    /\ stages' = Append(stages, "loadManifest")
    /\ \E ok \in BOOLEAN :
        IF ok
        THEN pc' = "validate" /\ UNCHANGED <<status, failures>>
        ELSE /\ failures' = failures \cup {"loadManifest"}
             /\ status' = WriteHeader(status, StatusInternalServerError)
             /\ pc' = "returned"
    /\ UNCHANGED <<form, envVars, missing, dir, mutatorCalls, manifestEnv,
                   savedEnv, sessionFile>>
    /\ UNCHANGED <<createRest, sideVars>>

\* the loop that takes the submitted values and collects the missing ones
Validate ==
    /\ pc = "validate"
    /\ envVars' = [n \in EnvNames |->
                     [required |-> envVars[n].required,
                      value |-> StoredValue(rev, envVars[n].value, form.values[n])]]
    /\ missing' = {n \in EnvNames : IsMissing(envVars[n].required, form.values[n])}
    /\ status' = IF missing' # {} THEN WriteHeader(status, StatusBadRequest)
                 ELSE status
    /\ pc' = IF missing' # {} /\ ValidationStops(missing')
             THEN "returned" ELSE Pipeline[1]
    /\ UNCHANGED <<form, dir, stages, failures, mutatorCalls, manifestEnv,
                   savedEnv, sessionFile>>
    /\ UNCHANGED <<createRest, sideVars>>

\* ioutil.TempDir, the deferred removal, and the two Mkdir calls
MakeTempDir ==
    /\ pc = "tempDir"
    /\ \E ok \in BOOLEAN :
        IF ok
        THEN /\ dir' = "exists"
             /\ pc' = After("tempDir")
             /\ UNCHANGED <<status, failures>>
        ELSE /\ failures' = failures \cup {"tempDir"}
             /\ status' = WriteHeader(status, StatusInternalServerError)
             /\ pc' = "returned"
             /\ UNCHANGED dir
    /\ UNCHANGED <<form, envVars, missing, stages, mutatorCalls, manifestEnv,
                   savedEnv, sessionFile>>
    /\ UNCHANGED <<createRest, sideVars>>

\* download: archive link, http.Get, Content-Disposition, Untar
Download ==
    /\ pc = "download"
    /\ stages' = Append(stages, "download")
    /\ \E linkOK, getOK, headerOK, untarOK \in BOOLEAN :
        LET outcome == DownloadOutcome(linkOK, getOK, headerOK, untarOK)
        IN  IF outcome = "ok"
            THEN /\ pc' = After("download")
                 /\ UNCHANGED <<status, failures, dir>>
            ELSE /\ failures' = failures \cup {outcome}
                 /\ status' = WriteHeader(status, StatusInternalServerError)
                 /\ Return
    /\ UNCHANGED <<form, envVars, missing, mutatorCalls, manifestEnv, savedEnv,
                   sessionFile>>
    /\ UNCHANGED <<createRest, sideVars>>

\* NewManifest, the AddEnvironmentVariable loop, and Save; none of their
\* errors is looked at.  When NewManifest fails the manifest it returns may
\* be nil, and using it may panic: the panic unwinds the handler.
MutateManifest ==
    /\ pc = "mutate"
    /\ stages' = Append(stages, "mutate")
    /\ \E newOK, nilPanics, saveOK \in BOOLEAN :
        IF ~newOK /\ nilPanics
        THEN /\ failures' = failures \cup {"newManifest", "panic"}
             /\ Return
             /\ UNCHANGED <<mutatorCalls, manifestEnv, savedEnv>>
        ELSE /\ mutatorCalls' = {<<n, envVars[n].value>> : n \in EnvNames}
             /\ manifestEnv' = AddAll(IF newOK THEN savedEnv ELSE EmptyEnv,
                                      EnvNames, envVars)
             /\ savedEnv' = IF saveOK THEN manifestEnv' ELSE savedEnv
             /\ failures' = failures \cup (IF newOK THEN {} ELSE {"newManifest"})
                                      \cup (IF saveOK THEN {} ELSE {"save"})
             /\ pc' = After("mutate")
             /\ UNCHANGED dir
    /\ UNCHANGED <<form, envVars, missing, status, sessionFile>>
    /\ UNCHANGED <<createRest, sideVars>>

\* NewCloudFoundry and `err = cf.WriteConfig()`; err is then overwritten by
\* Create's
WriteConfig ==
    /\ pc = "writeConfig"
    /\ stages' = Append(stages, "writeConfig")
    /\ \E ok \in BOOLEAN :
        /\ sessionFile' = ok
        /\ failures' = failures \cup (IF ok THEN {} ELSE {"writeConfig"})
    /\ pc' = After("writeConfig")
    /\ UNCHANGED <<form, envVars, missing, status, dir, mutatorCalls,
                   manifestEnv, savedEnv>>
    /\ UNCHANGED <<createRest, sideVars>>

\* Create returned: `log.Println(route, err)` and the end of the handler
DeployReturn ==
    /\ pc = "done"
    /\ dir = "exists"
    /\ Return
    /\ UNCHANGED <<form, envVars, missing, status, stages, failures,
                   mutatorCalls, manifestEnv, savedEnv, sessionFile>>
    /\ UNCHANGED <<createRest, sideVars>>

DeployNext ==
    \/ DecodeRequest
    \/ LoadManifest
    \/ Validate
    \/ MakeTempDir
    \/ Download
    \/ MutateManifest
    \/ WriteConfig
    \/ Next
    \/ DeployReturn

SpecDeploy == DeployInit /\ [][DeployNext]_vars

\* ------------------------------------------- two handlers in one process
\* The server runs one goroutine per request, so two Deploy handlers
\* interleave at every call. Each run is followed through the calls that
\* touch what the runs could share: the temporary directories, the session
\* files and the environment of the server process.

\* where WriteConfig writes the session document
ConfigPathInCwd(path) == <<".cf", "config.json">>
ConfigPath(path) == Join(path, <<".cf", "config.json">>)

\* os.Environ() as far as CF_HOME goes, and the lookup of a key in an
\* environment list: of duplicate keys os/exec keeps the last
Environ == IF cfHome = Unset THEN <<>> ELSE <<<<"CF_HOME", cfHome>>>>
Getenv(env, key) ==
    LET ks == {k \in 1..Len(env) : env[k][1] = key}
    IN  IF ks = {} THEN Unset
        ELSE env[CHOOSE k \in ks : \A j \in ks : j <= k][2]

\* cf(): the CF_HOME a `cf` subprocess of a session at path runs with
CmdHome(path) ==
    Getenv(Environ \o <<<<"CF_COLOR", <<"true">>>>, <<"CF_HOME", path>>>>,
           "CF_HOME")

\* envPath of a run
EnvPath(r) == Join(cdir[r], <<"env">>)

CliOp(name, home) == [op |-> name, home |-> home]

\* a `cf` subprocess of run r
RunSubprocess(r, name) ==
    cliOps' = [cliOps EXCEPT ![r] = @ \cup {CliOp(name, CmdHome(EnvPath(r)))}]

NoCreate ==
    /\ services = <<>>
    /\ timeout = 0
    /\ pc = "idle"
    /\ idx = 1
    /\ limit = 0
    /\ elapsed = 0
    /\ queries = 0
    /\ failed = 0
    /\ sleeps = 0
    /\ exactSeen = <<>>
    /\ createOutcome = <<>>
    /\ nearMiss = FALSE
    /\ svcState = <<>>
    /\ cmdLog = <<>>
    /\ pushErr = NoErr
    /\ appErr = NoErr
    /\ appOut = <<>>
    /\ result = NoResult

ConcInit ==
    /\ rev \in Revisions
    /\ NoCreate
    /\ NoDeploy
    /\ cpc = [r \in Runs |-> "tempDir"]
    /\ cdir = [r \in Runs |-> Unset]
    /\ tmpDirs = {}
    /\ fs = [p \in SessionFiles |-> "absent"]
    /\ cfHome = Unset
    /\ cliOps = [r \in Runs |-> {}]
    /\ NoUntar
    /\ NoAuth

soloVars == <<services, timeout, pc, idx, limit, elapsed, queries, failed,
              sleeps, nearMiss, exactSeen, createOutcome, svcState, cmdLog,
              pushErr, appErr, appOut, result, deployVars, untarVars,
              authVars>>

Goto(r, to) == cpc' = [cpc EXCEPT ![r] = to]

\* ioutil.TempDir("", ""): a directory that did not exist; then the two
\* Mkdir calls
RunTempDir(r) ==
    /\ cpc[r] = "tempDir"
    /\ \E d \in DirNames \ tmpDirs :
          /\ cdir' = [cdir EXCEPT ![r] = <<d>>]
          /\ tmpDirs' = tmpDirs \cup {d}
    /\ Goto(r, "writeConfig")
    /\ UNCHANGED <<rev, fs, cfHome, cliOps, soloVars>>

\* cf.WriteConfig(): the document of run r, if the write succeeds; its
\* error is dropped by Deploy
RunWriteConfig(r) ==
    /\ cpc[r] = "writeConfig"
    /\ \E ok \in BOOLEAN :
          fs' = IF ok THEN [fs EXCEPT ![ConfigPath(EnvPath(r))] = r] ELSE fs
    /\ Goto(r, "createService")
    /\ UNCHANGED <<rev, cdir, tmpDirs, cfHome, cliOps, soloVars>>

\* createService: `cf create-service`
RunCreateService(r) ==
    /\ cpc[r] = "createService"
    /\ RunSubprocess(r, "create-service")
    /\ Goto(r, "checkService")
    /\ UNCHANGED <<rev, cdir, tmpDirs, fs, cfHome, soloVars>>

\* checkService: `cf service`
RunCheckService(r) ==
    /\ cpc[r] = "checkService"
    /\ RunSubprocess(r, "service")
    /\ Goto(r, "createApp")
    /\ UNCHANGED <<rev, cdir, tmpDirs, fs, cfHome, soloVars>>

\* createApp of src/helpers, first statement: os.Setenv("CF_HOME", cf.path)
RunSetenv(r) ==
    /\ cpc[r] = "createApp"
    /\ rev = "helpers"
    /\ cfHome' = EnvPath(r)
    /\ Goto(r, "push")
    /\ UNCHANGED <<rev, cdir, tmpDirs, fs, cliOps, soloVars>>

\* createApp of src/helpers: the push command runs inside the server
\* process and finds its configuration through CF_HOME of that process
RunPushInProcess(r) ==
    /\ cpc[r] = "push"
    /\ cliOps' = [cliOps EXCEPT ![r] = @ \cup {CliOp("push", cfHome)}]
    /\ Goto(r, "unsetenv")
    /\ UNCHANGED <<rev, cdir, tmpDirs, fs, cfHome, soloVars>>

\* createApp of src/helpers returns: the deferred os.Unsetenv("CF_HOME")
RunUnsetenv(r) ==
    /\ cpc[r] = "unsetenv"
    /\ cfHome' = Unset
    /\ Goto(r, "getRoute")
    /\ UNCHANGED <<rev, cdir, tmpDirs, fs, cliOps, soloVars>>

\* createApp of the other revisions: `cf push` as a subprocess
RunPushSubprocess(r) ==
    /\ cpc[r] = "createApp"
    /\ rev # "helpers"
    /\ RunSubprocess(r, "push")
    /\ Goto(r, "getRoute")
    /\ UNCHANGED <<rev, cdir, tmpDirs, fs, cfHome, soloVars>>

\* getRoute: `cf app`
RunGetRoute(r) ==
    /\ cpc[r] = "getRoute"
    /\ RunSubprocess(r, "app")
    /\ Goto(r, "removeAll")
    /\ UNCHANGED <<rev, cdir, tmpDirs, fs, cfHome, soloVars>>

\* the handler returns: the deferred os.RemoveAll(dir)
RunRemoveAll(r) ==
    /\ cpc[r] = "removeAll"
    /\ tmpDirs' = tmpDirs \ {cdir[r][1]}
    /\ fs' = [p \in SessionFiles |->
                 IF p[1] = cdir[r][1] THEN "absent" ELSE fs[p]]
    /\ Goto(r, "returned")
    /\ UNCHANGED <<rev, cdir, cfHome, cliOps, soloVars>>

ConcNext ==
    \E r \in Runs :
        \/ RunTempDir(r)
        \/ RunWriteConfig(r)
        \/ RunCreateService(r)
        \/ RunCheckService(r)
        \/ RunSetenv(r)
        \/ RunPushInProcess(r)
        \/ RunUnsetenv(r)
        \/ RunPushSubprocess(r)
        \/ RunGetRoute(r)
        \/ RunRemoveAll(r)

SpecConc == ConcInit /\ [][ConcNext]_vars

\* --------------------------------------------------------- authentication
\* The session store is a cookie store (sessions.NewCookieStore): the
\* values of a session travel in the cookie of the request, and Save puts
\* the new values into the cookie of the response.  A request is its route,
\* its URL, the state parameter of its query and the cookie it carries.
StatusFound == 302
StatusUnauthorized == 401

Urls == {"/", "/?owner=o"}
OAuthStates == {"s1", "s2"}
QueryStates == OAuthStates \cup {""}
Token == "tok"
Hostname == "hostname"
AuthCodeURL == "provider"

\* _, ok := session.Values["token"].(oauth2.Token)
HasTokenAlways(session) == TRUE
HasToken(session) == session.token # None

\* the negation of `state == "" || state != session.Values["state"]`
StateMatches(state, session) == state # "" /\ state = session.state

Response(req, invoked, code, location, values, saved) ==
    [req |-> req, replay |-> FALSE, invoked |-> invoked, status |-> code,
     location |-> location, values |-> values, saved |-> saved]

\* RequireAuth around handler name
RequireAuth(req, name, saveOK) ==
    IF HasToken(req.cookie)
    THEN Response(req, name, StatusOK, None, req.cookie, FALSE)
    ELSE Response(req, None, StatusFound, "/auth",
                  [req.cookie EXCEPT !.redirect = req.url], saveOK)

\* Auth, with the outcome of GenerateRandomString and of session.Save
Auth(req, randOK, state, saveOK) ==
    IF ~randOK
    THEN Response(req, "Auth", StatusInternalServerError, None, req.cookie, FALSE)
    ELSE LET values == [req.cookie EXCEPT !.state = state]
         IN  IF ~saveOK
             THEN Response(req, "Auth", StatusInternalServerError, None,
                           values, FALSE)
             ELSE Response(req, "Auth", StatusFound, AuthCodeURL, values, TRUE)

\* Callback, with the outcome of the code exchange and of session.Save
Callback(req, exchangeOK, saveOK) ==
    IF ~StateMatches(req.state, req.cookie)
    THEN Response(req, "Callback", StatusUnauthorized, None, req.cookie, FALSE)
    ELSE IF ~exchangeOK
    THEN Response(req, "Callback", StatusInternalServerError, None,
                  req.cookie, FALSE)
    ELSE LET redirect == IF req.cookie.redirect # None
                         THEN req.cookie.redirect ELSE Hostname
             values == [token |-> Token, state |-> None, redirect |-> None]
         IN  IF ~saveOK
             THEN Response(req, "Callback", StatusInternalServerError, None,
                           values, FALSE)
             ELSE Response(req, "Callback", StatusFound, redirect, values, TRUE)

\* the browser keeps the cookie of a response that Save wrote
Answer(r) ==
    /\ resp' = r
    /\ cookie' = IF r.saved THEN r.values ELSE cookie

Request(path, url, state) ==
    [path |-> path, url |-> url, state |-> state, cookie |-> cookie]

AuthInit ==
    /\ rev \in Revisions
    /\ NoCreate
    /\ NoDeploy
    /\ NoConc
    /\ NoUntar
    /\ cookie = NoSession
    /\ captured = NoRequest
    /\ resp = NoResponse

nonAuthVars == <<createVars, deployVars, concVars, untarVars>>

\* GET /: RequireAuth(Index)
GetIndex ==
    /\ \E url \in Urls, saveOK \in BOOLEAN :
          Answer(RequireAuth(Request("GET /", url, ""), "Index", saveOK))
    /\ UNCHANGED <<captured, nonAuthVars>>

\* POST /: RequireAuth(Deploy)
PostDeploy ==
    /\ \E saveOK \in BOOLEAN :
          Answer(RequireAuth(Request("POST /", "/", ""), "Deploy", saveOK))
    /\ UNCHANGED <<captured, nonAuthVars>>

\* /auth
GetAuth ==
    /\ \E randOK \in BOOLEAN, state \in OAuthStates, saveOK \in BOOLEAN :
          Answer(Auth(Request("/auth", "/auth", ""), randOK, state, saveOK))
    /\ UNCHANGED <<captured, nonAuthVars>>

\* /callback?code=..&state=..; a request that was answered with a token
\* is kept as it was sent
GetCallback ==
    /\ \E state \in QueryStates, exchangeOK \in BOOLEAN, saveOK \in BOOLEAN :
          LET req == Request("/callback", "/callback", state)
              r == Callback(req, exchangeOK, saveOK)
          IN  /\ Answer(r)
              /\ captured' = IF r.saved THEN req ELSE captured
    /\ UNCHANGED nonAuthVars

\* the kept callback request is sent again, cookie included
ReplayCallback ==
    /\ captured # NoRequest
    /\ \E exchangeOK \in BOOLEAN, saveOK \in BOOLEAN :
          Answer([Callback(captured, exchangeOK, saveOK) EXCEPT !.replay = TRUE])
    /\ UNCHANGED <<captured, nonAuthVars>>

AuthNext ==
    \/ GetIndex
    \/ PostDeploy
    \/ GetAuth
    \/ GetCallback
    \/ ReplayCallback

SpecAuth == AuthInit /\ [][AuthNext]_vars

\* ------------------------------------------------------------------ Untar
\* The archive is read as a stream: each step of the loop reads the next
\* header and handles the entry.  An entry is a name (its "/"-separated
\* components; a leading "" stands for an absolute name), a kind, the
\* recorded permission bits and, for a file, its content.
MaxEntries == 3

EntryNames == {<<"d">>, <<"d", "f">>, <<"..", "cfg">>, <<"", "d", "f">>}
Modes == {"0644", "0755"}
Contents == {<<"a", "b">>, <<"c">>}
Faults == {"none", "early", "late"}

Entries ==
    {[name |-> n, kind |-> "dir", mode |-> m, content |-> <<>>] :
        n \in EntryNames, m \in Modes}
    \cup [name : EntryNames, kind : {"file"}, mode : Modes, content : Contents]

\* filepath.Clean of a rooted path: "" and "." are dropped, ".." removes
\* the component before it
RECURSIVE CleanFrom(_, _)
CleanFrom(stack, rest) ==
    IF rest = <<>> THEN stack
    ELSE LET c == Head(rest)
         IN  IF c \in {"", "."} THEN CleanFrom(stack, Tail(rest))
             ELSE IF c = ".."
             THEN CleanFrom(IF stack = <<>> THEN <<>>
                            ELSE SubSeq(stack, 1, Len(stack) - 1), Tail(rest))
             ELSE CleanFrom(Append(stack, c), Tail(rest))

Clean(path) == CleanFrom(<<>>, path)

\* path := filepath.Join(dest, header.Name)
UntarPath(name) == Clean(Join(Dest, name))

Prefixes(path) == {SubSeq(path, 1, k) : k \in 1..Len(path)}

\* os.MkdirAll(path, mode): fails when a component of path is a file;
\* otherwise creates the missing directories, all with mode.  An I/O error
\* stops it before anything is created (early) or before path itself (late).
MkdirAll(d, path, mode, fault) ==
    IF \E q \in Prefixes(path) : q \in DOMAIN d /\ d[q].kind = "file"
    THEN [disk |-> d, ok |-> FALSE]
    ELSE IF fault = "early" THEN [disk |-> d, ok |-> FALSE]
    ELSE LET made == IF fault = "late" THEN Prefixes(path) \ {path}
                     ELSE Prefixes(path)
         IN  [disk |-> [q \in DOMAIN d \cup made |->
                           IF q \in DOMAIN d THEN d[q] ELSE DirNode(mode)],
              ok |-> fault = "none"]

\* what OpenFile leaves of a file that exists
KeepContent(node) == node
Truncate(node) == [node EXCEPT !.content = <<>>]

\* os.OpenFile(path, O_CREATE|O_TRUNC|O_WRONLY, mode): fails when the parent
\* is no directory or path is one; creates the file with mode when it does
\* not exist, truncates it (its mode stays) when it does
OpenFile(d, path, mode, fault) ==
    LET parent == SubSeq(path, 1, Len(path) - 1)
    IN  IF \/ fault = "early"
           \/ path = <<>>
           \/ (parent # <<>> /\ parent \notin DOMAIN d)
           \/ (parent # <<>> /\ parent \in DOMAIN d /\ d[parent].kind # "dir")
           \/ (path \in DOMAIN d /\ d[path].kind = "dir")
        THEN [disk |-> d, ok |-> FALSE]
        ELSE [disk |-> (path :> (IF path \in DOMAIN d THEN Truncate(d[path])
                                 ELSE FileNode(mode, <<>>))) @@ d,
              ok |-> TRUE]

\* io.Copy(file, tarReader) that wrote the first n tokens of content
Copy(d, path, content, n) ==
    [d EXCEPT ![path].content = @ \o SubSeq(content, 1, n)]

\* one entry: the directory or file branch of the loop body
Extract(d, e, fault, n) ==
    LET path == UntarPath(e.name)
    IN  IF e.kind = "dir" THEN MkdirAll(d, path, e.mode, fault)
        ELSE LET o == OpenFile(d, path, e.mode, fault)
             IN  IF ~o.ok THEN o
                 ELSE IF fault = "late"
                 THEN [disk |-> Copy(o.disk, path, e.content, n), ok |-> FALSE]
                 ELSE [disk |-> Copy(o.disk, path, e.content, Len(e.content)),
                       ok |-> TRUE]

\* `return err` in the loop
UntarStopsNever(entryFailed) == FALSE
UntarStops(entryFailed) == entryFailed

UntarInit ==
    /\ rev \in Revisions
    /\ NoCreate
    /\ NoDeploy
    /\ NoConc
    /\ NoAuth
    /\ upc = "open"
    /\ disk = InitialDisk
    /\ un = 0
    /\ uentry = NoEntry
    /\ ufault = "none"
    /\ ueof = FALSE
    /\ uresult = "none"

nonUntarVars == <<createVars, deployVars, concVars, authVars>>

\* gzip.NewReader(reader)
UntarOpen ==
    /\ upc = "open"
    /\ \E ok \in BOOLEAN :
          IF ok THEN upc' = "loop" /\ UNCHANGED uresult
          ELSE upc' = "returned" /\ uresult' = "err"
    /\ UNCHANGED <<disk, un, uentry, ufault, ueof, nonUntarVars>>

\* tarReader.Next() returns io.EOF: break, return nil
UntarEOF ==
    /\ upc = "loop"
    /\ ueof' = TRUE
    /\ upc' = "returned"
    /\ uresult' = "nil"
    /\ UNCHANGED <<disk, un, uentry, ufault, nonUntarVars>>

\* tarReader.Next() returns another error: a corrupt header or a
\* decompression error
UntarHeaderError ==
    /\ upc = "loop"
    /\ un < MaxEntries
    /\ un' = un + 1
    /\ uentry' = NoEntry
    /\ ufault' = "header"
    /\ IF UntarStops(TRUE)
       THEN upc' = "returned" /\ uresult' = "err"
       ELSE UNCHANGED <<upc, uresult>>
    /\ UNCHANGED <<disk, ueof, nonUntarVars>>

\* tarReader.Next() returns a header: the body of the loop
UntarEntry ==
    /\ upc = "loop"
    /\ un < MaxEntries
    /\ \E e \in Entries, fault \in Faults :
        \E n \in 0..(Len(e.content) - 1) \cup {0} :
          LET r == Extract(disk, e, fault, n)
          IN  /\ disk' = r.disk
              /\ un' = un + 1
              /\ uentry' = e
              /\ ufault' = IF r.ok THEN "none"
                           ELSE IF fault = "none" THEN "early" ELSE fault
              /\ IF UntarStops(~r.ok)
                 THEN upc' = "returned" /\ uresult' = "err"
                 ELSE UNCHANGED <<upc, uresult>>
    /\ UNCHANGED <<ueof, nonUntarVars>>

UntarNext ==
    \/ UntarOpen
    \/ UntarEOF
    \/ UntarHeaderError
    \/ UntarEntry

SpecUntar == UntarInit /\ [][UntarNext]_vars

\* ---------------------------------------------- observations of the run
Terminal == {"Ready", "TimedOut", "RequestFailed"}
Failure == {"TimedOut", "RequestFailed"}
KnownCommands == {"create-service", "service", "push", "app"}

Issued(name, i) ==
    \E k \in 1..Len(cmdLog) : cmdLog[k].cmd = name /\ cmdLog[k].idx = i
CountIssued(name, i) ==
    Cardinality({k \in 1..Len(cmdLog) : cmdLog[k].cmd = name /\ cmdLog[k].idx = i})
Pushed == \E k \in 1..Len(cmdLog) : cmdLog[k].cmd = "push"
RouteQueried == \E k \in 1..Len(cmdLog) : cmdLog[k].cmd = "app"
UniqueLabels ==
    \A i, j \in 1..Len(services) : services[i] = services[j] => i = j

\* the number of status queries a poll with this limit may issue
MaxQueries(lim) == IF lim < 0 THEN 1 ELSE (lim \div PollInterval) + 1

TypeOK ==
    /\ pc \in {"createServices", "checkService", "createApp", "getRoute", "done"}
    /\ idx \in 1..(Len(services) + 1)
    /\ \A i \in 1..Len(services) :
          /\ svcState[i] \in Terminal \cup {"Pending", "Requested"}
          /\ createOutcome[i] \in {"none", "ok", "failed"}
    /\ \A k \in 1..Len(cmdLog) : cmdLog[k].cmd \in KnownCommands

\* ------------------------------------------------------------------ claims

\* C1: services are provisioned one at a time in the declaration order of
\* app.Services: the create-service command of a service is issued only once
\* every earlier service is Ready, the create-service commands appear in the
\* log in increasing index order, and at most one service is in flight
\* (Requested) at any time.
C1_SequentialInOrder ==
    /\ \A i, j \in 1..Len(services) :
          (i < j /\ (svcState[j] # "Pending" \/ Issued("create-service", j)))
              => svcState[i] = "Ready"
    /\ \A k, l \in 1..Len(cmdLog) :
          (k < l /\ cmdLog[k].cmd = "create-service"
                 /\ cmdLog[l].cmd = "create-service")
              => cmdLog[k].idx < cmdLog[l].idx
    /\ Cardinality({i \in 1..Len(services) : svcState[i] = "Requested"}) <= 1

C1_Witness ==
    /\ Len(services) = 2
    /\ Issued("create-service", 2)
    /\ svcState[2] = "Requested"

\* C2: the push and the app-status query are issued only when every declared
\* service is Ready; in a run where some service ended RequestFailed or
\* TimedOut neither of them has been issued, and Create is not at them.
C2_PushOnlyAfterAllReady ==
    /\ (Pushed \/ RouteQueried \/ pc \in {"createApp", "getRoute"})
          => \A i \in 1..Len(services) : svcState[i] = "Ready"
    /\ (\E i \in 1..Len(services) : svcState[i] \in Failure)
          => (~Pushed /\ ~RouteQueried /\ pc = "done")

C2_Witness ==
    /\ pc = "done"
    /\ Len(services) = 2
    /\ svcState[1] = "Ready"
    /\ svcState[2] \in Failure
    /\ ~Pushed

\* C3: when the create-service command of a service failed, that command was
\* issued exactly once, no status query was issued for that service, no
\* create-service command was issued for a later service, and Create has
\* returned the error.
C3_CreateFailureAborts ==
    \A i \in 1..Len(services) :
        createOutcome[i] = "failed" =>
            /\ CountIssued("create-service", i) = 1
            /\ ~Issued("service", i)
            /\ \A j \in 1..Len(services) :
                  j > i => (~Issued("create-service", j) /\ ~Issued("service", j))
            /\ pc = "done"
            /\ result.err # NoErr

C3_Witness ==
    /\ services = <<"svcA", "svcB">>
    /\ createOutcome[1] = "failed"
    /\ pc = "done"

\* C4: the poll loop terminates.  A checkService call issues at most
\* MaxQueries(limit) status queries whatever the limit (zero and negative
\* limits included) and whatever the queries answer; a call that saw no
\* exact success line ends TimedOut, with Create returning the error
\* "Service <label> incomplete" that names the service; and a run that is in
\* the poll loop leaves it.
C4_PollTerminates ==
    /\ [](queries <= MaxQueries(limit))
    /\ [](\A i \in 1..Len(services) :
            /\ (pc # "checkService" /\ createOutcome[i] = "ok" /\ ~exactSeen[i])
                  => svcState[i] = "TimedOut"
            /\ svcState[i] = "TimedOut"
                  => /\ pc = "done"
                     /\ result = [route |-> <<>>, err |-> IncompleteErr(services[i])]
                     /\ Mentions(result.err, services[i]))
    /\ [](pc = "checkService" => <>(pc # "checkService"))

C4_Witness ==
    /\ pc = "done"
    /\ idx <= Len(services)
    /\ svcState[idx] = "TimedOut"
    /\ limit < 0
    /\ queries = 1

\* C5: a status query that fails is a non-match and does not abort: the step
\* that runs a failing query either stays in the poll loop or ends the service
\* TimedOut with elapsed beyond the limit; a step whose query exits cleanly
\* with the exact line makes the service Ready however many queries failed
\* before; and a poll loop fails only by TimedOut with elapsed > limit.
C5_QueryFailureIsNonMatch ==
    /\ [][(pc = "checkService" /\ failed' > failed)
            => \/ (pc' = "checkService" /\ svcState'[idx] = "Requested"
                      /\ elapsed' <= limit)
               \/ (svcState'[idx] = "TimedOut" /\ elapsed' > limit)]_vars
    /\ [][(pc = "checkService" /\ exactSeen'[idx] /\ failed' = failed)
            => svcState'[idx] = "Ready"]_vars
    /\ [][(pc = "checkService" /\ svcState'[idx] \in Failure)
            => (svcState'[idx] = "TimedOut" /\ elapsed' > limit
                  /\ result'.err = IncompleteErr(services[idx]))]_vars

C5_Witness ==
    /\ pc = "createServices"
    /\ idx > 1
    /\ svcState[idx - 1] = "Ready"
    /\ failed >= 2

\* C6: a service is Ready exactly when its create-service command succeeded
\* and some status query for it exited without error with the status text on
\* a line of its own; output that holds the status text only inside a longer
\* line never makes it Ready.
C6_ReadyIffExactLine ==
    \A i \in 1..Len(services) :
        /\ svcState[i] = "Ready" <=> (createOutcome[i] = "ok" /\ exactSeen[i])
        /\ (pc = "checkService" /\ i = idx /\ nearMiss /\ ~exactSeen[i])
              => svcState[i] = "Requested"

C6_Witness ==
    /\ pc = "createServices"
    /\ idx > 1
    /\ svcState[idx - 1] = "Ready"
    /\ nearMiss

\* C7: provisioning stops at the first failing service and rolls nothing
\* back: once a service is TimedOut or RequestFailed every later service is
\* still Pending with no command issued for it, Create has returned, earlier
\* services stay Ready, and the only commands ever issued are create-service
\* (at most once per service), service, push and app.
C7_FailFastNoRollback ==
    /\ \A i \in 1..Len(services) :
          svcState[i] \in Failure =>
              /\ pc = "done"
              /\ \A j \in 1..Len(services) :
                    /\ j > i => /\ svcState[j] = "Pending"
                                /\ ~Issued("create-service", j)
                                /\ ~Issued("service", j)
                    /\ j < i => svcState[j] = "Ready"
    /\ \A k \in 1..Len(cmdLog) : cmdLog[k].cmd \in KnownCommands
    /\ \A i \in 1..Len(services) : CountIssued("create-service", i) <= 1

C7_Witness ==
    /\ pc = "done"
    /\ Len(services) = 2
    /\ svcState[1] = "TimedOut"
    /\ svcState[2] = "Pending"

C9_ErrorNamesService ==
    \A i \in 1..Len(services) :
        (pc = "done" /\ svcState[i] \in Failure) => Mentions(result.err, services[i])

\* C10: every poll runs with the limit the caller configured.
C10_LimitIsCallerTimeout ==
    pc = "checkService" => limit = timeout

\* ------------------------------------------------------- route discovery
\* positions of the app-status output where a line begins with the marker
MarkerStarts(out) ==
    {a \in 1..Len(out) : out[a] = UrlsMarker /\ (a = 1 \/ out[a-1] = NewLine)}

\* the text from position a + 1 to the end of the line position a is on
RestOfLine(out, a) ==
    SubSeq(out, a + 1,
           CHOOSE e \in a..Len(out) :
               /\ \A k \in (a+1)..e : out[k] # NewLine
               /\ (e = Len(out) \/ out[e+1] = NewLine))

FirstMarkerStart(out) ==
    CHOOSE a \in MarkerStarts(out) : \A b \in MarkerStarts(out) : a <= b

\* the errors Create can return out of getRoute
RouteStageErrors ==
    {GetRouteResult(e, o).err : e \in {NoErr, ExitErr}, o \in AppOutputs} \ {NoErr}

\* C11: when the app-status query exits cleanly, getRoute returns the rest of
\* the first output line that begins with "urls: ", the marker removed, and
\* no error; when no line begins with the marker it returns the empty route
\* and the error "No URL found for app testapp", although the push succeeded.
C11_RouteIsRestOfUrlsLine ==
    (pc = "done" /\ RouteQueried /\ appErr = NoErr) =>
        /\ pushErr = NoErr
        /\ IF MarkerStarts(appOut) # {}
           THEN result = [route |-> RestOfLine(appOut, FirstMarkerStart(appOut)),
                          err |-> NoErr]
           ELSE result = [route |-> <<>>, err |-> NoURLErr(AppName)]

C11_Witness ==
    /\ pc = "done"
    /\ appErr = NoErr
    /\ appOut = <<UrlsMarker, "x">>
    /\ result.route = <<"x">>

\* C12: the route query is issued only after a successful push, and the error
\* Create returns for a failed push is none of the errors it can return out
\* of getRoute (no route line found, or the app-status query failing).
C12_PushAndRouteFailuresDiffer ==
    /\ RouteQueried => (Pushed /\ pushErr = NoErr)
    /\ (pc = "done" /\ Pushed /\ pushErr # NoErr)
          => (result.err = pushErr /\ result.err \notin RouteStageErrors)

\* ------------------------------------------------------ the Deploy pipeline
StageRan(st) == \E k \in 1..Len(stages) : stages[k] = st
DeployStages == <<"loadManifest", "download", "mutate", "writeConfig">>
IsPrefix(a, b) == Len(a) <= Len(b) /\ SubSeq(b, 1, Len(a)) = a
CmdRank(c) == IF c \in {"create-service", "service"} THEN 1
              ELSE IF c = "push" THEN 2 ELSE 3
InsideTempDir == {"download", "mutate", "writeConfig", "createServices",
                  "checkService", "createApp", "getRoute", "done"}

\* C13: when a required environment variable was submitted empty, no later
\* stage runs: no download, no manifest mutation, no session write, and no
\* cf command.
C13_MissingValueStopsDeploy ==
    missing # {} =>
        /\ ~StageRan("download")
        /\ ~StageRan("mutate")
        /\ ~StageRan("writeConfig")
        /\ mutatorCalls = {}
        /\ ~sessionFile
        /\ cmdLog = <<>>

\* C14: when obtaining the archive link, NewManifest, Save or WriteConfig
\* failed, no later stage runs and no cf command is issued.
C14_StageErrorAborts ==
    (failures \cap {"archiveLink", "newManifest", "save", "writeConfig"} # {})
        => (pc = "returned" /\ cmdLog = <<>>)

\* C15: the temporary directory exists from its creation to the end of the
\* handler and is removed when the handler has returned, whichever stage
\* failed; it is absent only when TempDir itself failed or was never reached.
C15_TempDirRemoved ==
    /\ pc \in InsideTempDir => dir = "exists"
    /\ pc = "returned" =>
          /\ dir \in {"none", "removed"}
          /\ dir = "none" => (~StageRan("download") /\ cmdLog = <<>>)

C15_Witness ==
    /\ pc = "returned"
    /\ dir = "removed"
    /\ result.err # NoErr
    /\ Pushed

\* C18: the stages of a run happen in the order manifest load, archive
\* fetch, manifest mutation, session write, service provisioning, push, route
\* query, each at most once: the stages run are a prefix of that order, cf
\* commands are issued only after the session write, service commands come
\* before the push and the push before the route query.
C18_StagesInOrder ==
    /\ IsPrefix(stages, DeployStages)
    /\ cmdLog # <<>> => stages = DeployStages
    /\ \A k, l \in 1..Len(cmdLog) :
          k < l => /\ CmdRank(cmdLog[k].cmd) <= CmdRank(cmdLog[l].cmd)
                   /\ cmdLog[k].cmd \in {"push", "app"}
                         => cmdLog[k].cmd # cmdLog[l].cmd

C18_Witness ==
    /\ pc = "returned"
    /\ Len(services) = 1
    /\ RouteQueried
    /\ result.err = NoErr
    /\ result.route # <<>>

\* C19: with the contract {A: required, B: optional} and a form that supplies
\* only A = "x", a manifest that was loaded, mutated and saved without error
\* has A = "x", B and every other key as they were in the archive, and the
\* mutator was not called for B.
C19_OnlySuppliedNamesMutated ==
    (/\ StageRan("mutate")
     /\ failures \cap {"newManifest", "save", "panic"} = {}
     /\ form.values = [n \in EnvNames |-> IF n = "A" THEN "x" ELSE ""])
        => /\ savedEnv = [ArchiveManifestEnv EXCEPT !["A"] = "x"]
           /\ \A c \in mutatorCalls : c[1] # "B"

\* C20: a run in which the session write, service provisioning, the push or
\* route discovery failed answers with a failure status.
C20_FailureIsReported ==
    (/\ pc = "returned"
     /\ ("writeConfig" \in failures \/ result.err # NoErr))
        => FinalStatus(status) >= StatusBadRequest

\* -------------------------------------------------- concurrent handlers
\* the session file of run r, under the directory TempDir gave it
OwnSessionFile(r) == <<cdir[r][1], "env", ".cf", "config.json">>
OwnHome(r) == <<cdir[r][1], "env">>
Live(r) == cpc[r] \notin {"tempDir", "returned", "idle"}
WritesConfig(r) == cpc[r] = "writeConfig" /\ cpc'[r] # "writeConfig"

\* C16: every CLI operation of a run ran with that run's own session
\* directory as CF_HOME, the push included: never with the directory of
\* the other run and never with CF_HOME unset.
C16_OwnSessionHome ==
    \A r \in Runs : \A o \in cliOps[r] : o.home = OwnHome(r)

\* C17: two live runs have distinct temporary directories, and a
\* WriteConfig step of a run changes no session file but the one under its
\* own directory, to which it writes its own document.
C17_SessionFilesIsolated ==
    /\ [](\A r, q \in Runs : (r # q /\ Live(r) /\ Live(q)) => cdir[r] # cdir[q])
    /\ [][\A r \in Runs : WritesConfig(r) =>
            /\ \A p \in SessionFiles \ {OwnSessionFile(r)} : fs'[p] = fs[p]
            /\ fs'[OwnSessionFile(r)] \in {r, fs[OwnSessionFile(r)]}]_vars

C17_Witness ==
    /\ \A r \in Runs : Live(r) /\ fs[OwnSessionFile(r)] = r
    /\ cpc["A"] = "createService"
    /\ cpc["B"] = "getRoute"

\* ------------------------------------------------ the number of queries
\* the service at idx has just ended TimedOut: its poll frame is still there
TimedOutNow == pc = "done" /\ idx <= Len(services) /\ svcState[idx] = "TimedOut"

\* the service before idx has just become Ready: its frame is still there
ReadyNow ==
    /\ pc = "createServices"
    /\ idx > 1
    /\ svcState[idx - 1] = "Ready"
    /\ queries > 0

\* C23: a poll loop that ends without a match has issued exactly
\* floor(limit / 5) + 1 queries (1 for a limit below 5, negative included, 7
\* for 30), at least one, with a sleep after every query but the last; while
\* the loop runs every query so far was followed by a sleep; and a loop that
\* ends Ready has issued at most that many queries, the last among them.
C23_QueryCount ==
    /\ TimedOutNow =>
          /\ queries = MaxQueries(limit)
          /\ queries >= 1
          /\ limit < PollInterval => queries = 1
          /\ limit = HardCodedTimeout => queries = 7
          /\ sleeps = queries - 1
          /\ elapsed = PollInterval * queries
    /\ pc = "checkService" =>
          /\ sleeps = queries
          /\ queries < MaxQueries(limit)
    /\ ReadyNow =>
          /\ queries <= MaxQueries(limit)
          /\ sleeps = queries - 1

\* a match on the last permitted query, after one that did not match
C23_Witness ==
    /\ ReadyNow
    /\ limit = PollInterval
    /\ queries = MaxQueries(limit)
    /\ queries = 2
    /\ sleeps = 1

\* ------------------------------------------------------ Create's result
\* C24: once Create has returned, a non-nil error comes with the empty
\* route, and a nil error means that every declared service is Ready, that
\* the push was run and succeeded, that the app-status query succeeded and
\* that the route is the rest of a "urls: " line of its output.
C24_NoPartialResult ==
    pc = "done" =>
        /\ result.err # NoErr => result.route = <<>>
        /\ result.err = NoErr =>
              /\ \A i \in 1..Len(services) : svcState[i] = "Ready"
              /\ Pushed
              /\ pushErr = NoErr
              /\ RouteQueried
              /\ appErr = NoErr
              /\ \E a \in MarkerStarts(appOut) :
                    result.route = RestOfLine(appOut, a)

C24_Witness ==
    /\ pc = "done"
    /\ result.err = NoErr
    /\ Len(services) = MaxServices
    /\ result.route = <<"x">>

\* ------------------------------------------------- the values injected
\* C25: every call of AddEnvironmentVariable passes, for its name, the value
\* the form submitted for that name, and once the mutation stage has run
\* without a panic such a call was made for every name of the descriptor.
C25_InjectedIsSubmitted ==
    /\ \A c \in mutatorCalls : c[2] = form.values[c[1]]
    /\ (StageRan("mutate") /\ "panic" \notin failures) =>
          \A n \in EnvNames : <<n, form.values[n]>> \in mutatorCalls

\* ------------------------------------------------- malformed requests
Malformed == ~form.sourceOK \/ form.targetParts # 4

\* C26: a request whose source fields are missing or whose target has not
\* exactly 4 parts is answered 400 by the first step of the handler, which
\* returns: no manifest load, no temporary directory, no later stage and no
\* cf command.
C26_MalformedRejected ==
    (Malformed /\ pc # "decode") =>
        /\ pc = "returned"
        /\ status = StatusBadRequest
        /\ FinalStatus(status) = 400
        /\ stages = <<>>
        /\ failures = {}
        /\ dir = "none"
        /\ mutatorCalls = {}
        /\ ~sessionFile
        /\ cmdLog = <<>>

C26_Witness ==
    /\ pc = "returned"
    /\ form.sourceOK
    /\ form.targetParts = 3
    /\ status = 400
    /\ stages = <<>>

\* ------------------------------------------------------------ extraction
\* a step that handled an entry, and the path the entry names
EntryStep == un' = un + 1 /\ uentry' # NoEntry
EntryPath == UntarPath(uentry'.name)

C22_EarlierEntriesUntouched ==
    /\ [](ufault # "none" => (upc = "returned" /\ uresult = "err" /\ ~ueof))
    /\ [][(EntryStep /\ ufault' # "none") =>
            \A q \in DOMAIN disk :
                IsPrefix(Dest, q) => (q \in DOMAIN disk' /\ disk'[q] = disk[q])]_vars
    /\ [][upc = "returned" => (disk' = disk /\ un' = un)]_vars

\* C22, amended: the entry that fails ends Untar with an error; what was on disk
\* before it stays as it was, except at the failing entry's own path and
\* the ancestors it created; a failing header changes nothing; and after
\* the return nothing is created or removed.
C22_FailsFastNoCleanup ==
    /\ [](ufault # "none" => (upc = "returned" /\ uresult = "err" /\ ~ueof))
    /\ [][(EntryStep /\ ufault' # "none") =>
            /\ \A q \in DOMAIN disk \ {EntryPath} :
                  q \in DOMAIN disk' /\ disk'[q] = disk[q]
            /\ DOMAIN disk' \ DOMAIN disk \subseteq Prefixes(EntryPath)]_vars
    /\ [][ufault' = "header" => disk' = disk]_vars
    /\ [][upc = "returned" => (disk' = disk /\ un' = un)]_vars

\* the second entry fails in the middle of its content: the directory of
\* the first entry and the part already written are on disk
C22_Witness ==
    /\ upc = "returned"
    /\ uresult = "err"
    /\ un = 2
    /\ ufault = "late"
    /\ uentry.name = <<"d", "f">>
    /\ Dest \o <<"d">> \in DOMAIN disk
    /\ Dest \o <<"d", "f">> \in DOMAIN disk
    /\ disk[Dest \o <<"d", "f">>].content = <<"a">>

\* C27: whatever the entry names, every path outside dest is on disk
\* exactly as it was before Untar.
C27_WritesOnlyUnderDest ==
    \A q \in DOMAIN disk \cup DOMAIN InitialDisk :
        \/ IsPrefix(Dest, q)
        \/ /\ q \in DOMAIN disk
           /\ q \in DOMAIN InitialDisk
           /\ disk[q] = InitialDisk[q]

\* -------------------------------------------------------- authentication
Gated == {"GET /", "POST /"}

\* C28: Index and Deploy were invoked only for a request on their route
\* whose session holds a token; a request on these routes without a token
\* had the handler not invoked, was redirected to /auth with 302, and its
\* URL was put into the session as redirect (and into the cookie when the
\* session was saved).
C28_RequireAuthGates ==
    /\ resp.invoked \in {"Index", "Deploy"} =>
          /\ resp.req.path = (IF resp.invoked = "Index" THEN "GET /" ELSE "POST /")
          /\ resp.req.cookie.token # None
    /\ (resp.req.path \in Gated /\ resp.req.cookie.token = None) =>
          /\ resp.invoked = None
          /\ resp.status = 302
          /\ resp.location = "/auth"
          /\ resp.values = [resp.req.cookie EXCEPT !.redirect = resp.req.url]
          /\ resp.saved => cookie.redirect = resp.req.url
    /\ (resp.req.path \in Gated /\ resp.req.cookie.token # None) =>
          resp.invoked \in {"Index", "Deploy"}

\* Deploy is invoked for a session that got its token through the callback
C28_Witness ==
    /\ resp.invoked = "Deploy"
    /\ resp.req.cookie = [token |-> Token, state |-> None, redirect |-> None]
    /\ captured # NoRequest

\* C29: a callback changes the session's token only when the state of the
\* request is non-empty and equal to the state in the session; any other
\* callback is answered 401 and leaves the session as it was; a callback
\* answered with the final redirect has removed state and redirect from the
\* session; and the same callback request sent again is answered 401.
C29_CallbackStateChecked ==
    resp.req.path = "/callback" =>
        LET matches == /\ resp.req.state # ""
                       /\ resp.req.state = resp.req.cookie.state
        IN  /\ resp.values.token # resp.req.cookie.token => matches
            /\ ~matches => /\ resp.status = 401
                           /\ resp.values = resp.req.cookie
                           /\ ~resp.saved
            /\ resp.status = 302 =>
                  /\ resp.values = [token |-> Token, state |-> None,
                                     redirect |-> None]
                  /\ resp.saved
            /\ resp.replay => resp.status = 401

====
